---- MODULE Spec2Model ----
(***************************************************************************)
(* Model of the layer tree of rust-layers (src/layers.rs): the intrusive   *)
(* doubly linked child list of ContainerLayer, the CommonLayer header of   *)
(* every node, and the run-time borrow check of Layer::with_common; and of  *)
(* LayerBufferSet, MaybeQuadtree, the Tile implementation of src/tile.rs   *)
(* and the pixel conversion of src/util.rs.                                *)
(***************************************************************************)
EXTENDS Integers, Sequences, FiniteSets, TLC

\* ------------------------------------------------------------------ bounds
NumLayers == 3          \* reference-counted layer nodes in existence
MaxDepth == 2           \* nesting depth of caller-level with_common closures
MaxLen == 6             \* bytes in a buffer given to convert_rgb32_to_rgb24
MaxByte == 2            \* byte values used, of the 256 of a u8
MaxTile == 4            \* largest tile size a MaybeQuadtree is configured with
MaxMem == 3             \* largest cache size a MaybeQuadtree is configured with
MaxBuffers == 3         \* buffers in a LayerBufferSet
MaxRenderIdx == 1       \* largest render_idx of a LayerBuffer
MaxStride == 2          \* largest stride of a LayerBuffer

Nodes == 1..NumLayers
None == 0
OptNodes == Nodes \cup {None}

\* the variant of the Layer handle of node n: the population is two
\* containers, a texture layer and a compositor layer, repeated
Layer(n) ==
    IF n % 4 \in {1, 2} THEN "ContainerLayerKind"
    ELSE IF n % 4 = 3 THEN "TextureLayerKind"
    ELSE "CompositorLayerKind"

\* the nodes an Rc<ContainerLayer> points to, the pseudo_self of the tree
\* operations
Containers == {n \in Nodes : Layer(n) = "ContainerLayerKind"}

VARIABLES
    parent,         \* CommonLayer.parent of every node
    prev_sibling,   \* CommonLayer.prev_sibling of every node
    next_sibling,   \* CommonLayer.next_sibling of every node
    first_child,    \* ContainerLayer.first_child of every container
    last_child,     \* ContainerLayer.last_child of every container
    borrows,        \* nodes whose with_common closure is executing, outermost first
    attached,       \* per container: the nodes added and not since removed
    last,           \* the last call: operation, arguments and how it ended
    buffer,         \* the argument of convert_rgb32_to_rgb24
    out,            \* the vector convert_rgb32_to_rgb24 returned
    quadtree,       \* CompositorLayer.quadtree, a MaybeQuadtree
    configured,     \* the tile size that MaybeQuadtree was created with
    ret,            \* the value the last tile_size() returned, if any
    buffers,        \* LayerBufferSet.buffers
    iters,          \* the ChildIterator objects the caller holds
    handles         \* per node: the caller holds a handle (an Rc) to it

\* the state outside the layer tree
aux == <<buffer, out, quadtree, configured, ret, buffers, handles>>

vars == <<parent, prev_sibling, next_sibling, first_child, last_child,
          borrows, attached, last, aux, iters>>

links == <<parent, prev_sibling, next_sibling, first_child, last_child>>

Range(s) == {s[i] : i \in 1..Len(s)}

\* the fields the tree operations read and write, as one value
Fields ==
    [parent |-> parent, prev_sibling |-> prev_sibling,
     next_sibling |-> next_sibling,
     first_child |-> first_child, last_child |-> last_child]

\* fn CommonLayer(): a node is created with all links unset
CommonLayer == [n \in Nodes |-> None]

\* fn ContainerLayer(): a container is created without children
ContainerLayer == [c \in Containers |-> None]

\* RefCell::borrow_mut on the common header of n succeeds iff no mutable
\* borrow of that header is outstanding
BorrowMutUnchecked(n, held) == TRUE
BorrowMut(n, held) == n \notin held

\* the three entry assertions of add_child_start / add_child_end
EntryAssertsSiblingsOnly(f, n) ==
    /\ f.prev_sibling[n] = None
    /\ f.next_sibling[n] = None
EntryAsserts(f, n) ==
    /\ f.parent[n] = None
    /\ f.prev_sibling[n] = None
    /\ f.next_sibling[n] = None

\* the result of a call: the fields as the call left them and how it ended
Ret(f, outcome) == [f |-> f, outcome |-> outcome]

add_child_start(pseudo_self, new_child, f0, held) ==
    IF ~BorrowMut(new_child, held) THEN Ret(f0, "borrow_mut")
    ELSE IF ~EntryAsserts(f0, new_child) THEN Ret(f0, "assert_entry")
    ELSE
      LET f1 == [f0 EXCEPT !.parent[new_child] = pseudo_self]
          fc == f1.first_child[pseudo_self]
      IN  IF fc # None /\ ~BorrowMut(fc, held \cup {new_child})
            THEN Ret(f1, "borrow_mut")
          ELSE IF fc # None /\ f1.prev_sibling[fc] # None
            THEN Ret(f1, "assert_inner")
          ELSE
            LET f2 == IF fc = None THEN f1
                      ELSE [f1 EXCEPT !.prev_sibling[fc] = new_child,
                                      !.next_sibling[new_child] = fc]
                f3 == [f2 EXCEPT !.first_child[pseudo_self] = new_child]
                should_set == f3.last_child[pseudo_self] = None
                f4 == IF should_set
                      THEN [f3 EXCEPT !.last_child[pseudo_self] = new_child]
                      ELSE f3
            IN  Ret(f4, "ok")

add_child_end(pseudo_self, new_child, f0, held) ==
    IF ~BorrowMut(new_child, held) THEN Ret(f0, "borrow_mut")
    ELSE IF ~EntryAsserts(f0, new_child) THEN Ret(f0, "assert_entry")
    ELSE
      LET f1 == [f0 EXCEPT !.parent[new_child] = pseudo_self]
          lc == f1.last_child[pseudo_self]
      IN  IF lc # None /\ ~BorrowMut(lc, held \cup {new_child})
            THEN Ret(f1, "borrow_mut")
          ELSE IF lc # None /\ f1.next_sibling[lc] # None
            THEN Ret(f1, "assert_inner")
          ELSE
            LET f2 == IF lc = None THEN f1
                      ELSE [f1 EXCEPT !.next_sibling[lc] = new_child,
                                      !.prev_sibling[new_child] = lc]
                f3 == [f2 EXCEPT !.last_child[pseudo_self] = new_child]
                f4 == IF f3.first_child[pseudo_self] = None
                      THEN [f3 EXCEPT !.first_child[pseudo_self] = new_child]
                      ELSE f3
            IN  Ret(f4, "ok")

\* remove_child as it would be if it reset the removed child's own header
remove_child_resetting(pseudo_self, child, f0, held) ==
    IF ~BorrowMut(child, held) THEN Ret(f0, "borrow_mut")
    ELSE IF f0.parent[child] = None THEN Ret(f0, "assert_entry")
    ELSE IF Layer(f0.parent[child]) # "ContainerLayerKind"
      THEN Ret(f0, "invalid_parent")
    ELSE IF f0.parent[child] # pseudo_self THEN Ret(f0, "assert_entry")
    ELSE
      LET nx == f0.next_sibling[child]
          pv == f0.prev_sibling[child]
      IN  IF nx # None /\ ~BorrowMut(nx, held \cup {child})
            THEN Ret(f0, "borrow_mut")
          ELSE
            LET f1 == IF nx = None
                      THEN [f0 EXCEPT !.last_child[pseudo_self] = pv]
                      ELSE [f0 EXCEPT !.prev_sibling[nx] = pv]
            IN  IF pv # None /\ ~BorrowMut(pv, held \cup {child})
                  THEN Ret(f1, "borrow_mut")
                ELSE
                  LET f2 == IF pv = None
                            THEN [f1 EXCEPT !.first_child[pseudo_self] = nx]
                            ELSE [f1 EXCEPT !.next_sibling[pv] = nx]
                  IN  Ret([f2 EXCEPT !.parent[child] = None,
                                     !.prev_sibling[child] = None,
                                     !.next_sibling[child] = None], "ok")

remove_child(pseudo_self, child, f0, held) ==
    IF ~BorrowMut(child, held) THEN Ret(f0, "borrow_mut")
    ELSE IF f0.parent[child] = None THEN Ret(f0, "assert_entry")
    ELSE IF Layer(f0.parent[child]) # "ContainerLayerKind"
      THEN Ret(f0, "invalid_parent")
    ELSE IF f0.parent[child] # pseudo_self THEN Ret(f0, "assert_entry")
    ELSE
      LET nx == f0.next_sibling[child]
          pv == f0.prev_sibling[child]
      IN  IF nx # None /\ ~BorrowMut(nx, held \cup {child})
            THEN Ret(f0, "borrow_mut")
          ELSE
            LET f1 == IF nx = None
                      THEN [f0 EXCEPT !.last_child[pseudo_self] = pv]
                      ELSE [f0 EXCEPT !.prev_sibling[nx] = pv]
            IN  IF pv # None /\ ~BorrowMut(pv, held \cup {child})
                  THEN Ret(f1, "borrow_mut")
                ELSE
                  LET f2 == IF pv = None
                            THEN [f1 EXCEPT !.first_child[pseudo_self] = nx]
                            ELSE [f1 EXCEPT !.next_sibling[pv] = nx]
                  IN  Ret(f2, "ok")

\* remove_all_children as it would be if it forgot last_child
remove_all_children_first_only(self, f0) ==
    Ret([f0 EXCEPT !.first_child[self] = None], "ok")

remove_all_children(self, f0) ==
    Ret([f0 EXCEPT !.first_child[self] = None, !.last_child[self] = None],
        "ok")

\* ChildIterator::next applied until it returns None, at most fuel times:
\* the nodes yielded, starting with current, under the next_sibling links ns
RECURSIVE ChildIterator(_, _, _)
ChildIterator(ns, current, fuel) ==
    IF current = None \/ fuel = 0 THEN <<>>
    ELSE <<current>> \o ChildIterator(ns, ns[current], fuel - 1)

\* container.children() collected; a chain longer than the number of nodes
\* repeats a node and never ends
children(c) == ChildIterator(next_sibling, first_child[c], NumLayers + 1)
Terminates(c) == Len(children(c)) <= NumLayers

\* the names of the ChildIterator objects a caller holds at once
Iterators == {"first", "second"}

\* a ChildIterator: its field current; and for the record whether the caller
\* holds it, the container whose children() made it, the nodes it has
\* yielded and whether next() has returned None
NoIterator ==
    [held |-> FALSE, container |-> None, current |-> None, yielded |-> <<>>,
     done |-> FALSE]

\* fn children: a new iterator at the container's current first_child
children_iterator(self, f) ==
    [held |-> TRUE, container |-> self, current |-> f.first_child[self],
     yielded |-> <<>>, done |-> FALSE]

\* ChildIterator::next as it would be if it took the child out of the list
\* as it yields it
next_consuming(self, f, held) ==
    IF self.current = None
      THEN [self |-> [self EXCEPT !.done = TRUE], f |-> f, outcome |-> "ok"]
    ELSE IF ~BorrowMut(self.current, held)
      THEN [self |-> self, f |-> f, outcome |-> "borrow_mut"]
    ELSE [self |-> [self EXCEPT !.current = f.next_sibling[self.current],
                                !.yielded = Append(@, self.current)],
          f |-> [f EXCEPT !.first_child[self.container] =
                              f.next_sibling[self.current]],
          outcome |-> "ok"]

\* ChildIterator::next: yields current and moves to its next_sibling, read
\* through with_common
next(self, f, held) ==
    IF self.current = None
      THEN [self |-> [self EXCEPT !.done = TRUE], f |-> f, outcome |-> "ok"]
    ELSE IF ~BorrowMut(self.current, held)
      THEN [self |-> self, f |-> f, outcome |-> "borrow_mut"]
    ELSE [self |-> [self EXCEPT !.current = f.next_sibling[self.current],
                                !.yielded = Append(@, self.current)],
          f |-> f,
          outcome |-> "ok"]

\* the iterators after a mutation of the tree: iterating over a list that
\* is being mutated is not guarded, and the caller drops the iterators it
\* holds when it mutates the tree
Mutated(its) == [i \in Iterators |-> NoIterator]

\* the holders of an Rc to node n among the nodes in alive: the caller's
\* handle, and every field of type Option<Layer> that holds n, each of them
\* a clone of the Rc
Owners(n, f, h, its, alive) ==
    {<<"handle", n>> : x \in {n} \cap {m \in Nodes : h[m]}}
    \cup {<<"parent", m>> : m \in {m \in alive : f.parent[m] = n}}
    \cup {<<"prev_sibling", m>> : m \in {m \in alive : f.prev_sibling[m] = n}}
    \cup {<<"next_sibling", m>> : m \in {m \in alive : f.next_sibling[m] = n}}
    \cup {<<"first_child", c>> :
              c \in {c \in Containers \cap alive : f.first_child[c] = n}}
    \cup {<<"last_child", c>> :
              c \in {c \in Containers \cap alive : f.last_child[c] = n}}
    \cup {<<"current", i>> :
              i \in {i \in Iterators : its[i].held /\ its[i].current = n}}

\* Rc: a node is released when its last holder is gone, and its own fields
\* with it; dropped is the set of nodes released so far
RECURSIVE Drop(_, _, _, _)
Drop(dropped, f, h, its) ==
    LET more == {n \in Nodes \ dropped :
                    Owners(n, f, h, its, Nodes \ dropped) = {}}
    IN  IF more = {} THEN dropped ELSE Drop(dropped \cup more, f, h, its)

Released == Drop({}, Fields, handles, iters)

\* the strong count of the Rc of node n
strong_count(n) ==
    Cardinality(Owners(n, Fields, handles, iters, Nodes \ Released))

\* ---------------------------------------------------------------- actions
Running == last.outcome = "ok"

Call(op, c, n, r) ==
    /\ parent' = r.f.parent
    /\ prev_sibling' = r.f.prev_sibling
    /\ next_sibling' = r.f.next_sibling
    /\ first_child' = r.f.first_child
    /\ last_child' = r.f.last_child
    /\ last' = [op |-> op, container |-> c, child |-> n, outcome |-> r.outcome]
    /\ iters' = IF r.f = Fields THEN iters ELSE Mutated(iters)
    /\ UNCHANGED <<borrows, aux>>

\* the layer tree after construction of its nodes
InitTree ==
    /\ parent = CommonLayer
    /\ prev_sibling = CommonLayer
    /\ next_sibling = CommonLayer
    /\ first_child = ContainerLayer
    /\ last_child = ContainerLayer
    /\ borrows = <<>>
    /\ attached = [c \in Containers |-> {}]
    /\ last = [op |-> "new", container |-> None, child |-> None,
               outcome |-> "ok"]
    /\ iters = [i \in Iterators |-> NoIterator]
    /\ handles = [n \in Nodes |-> TRUE]

\* no pixel buffer is being converted
InitNoBuffer ==
    /\ buffer = <<>>
    /\ out = <<>>

\* the variants of MaybeQuadtree
Tree(q) == [variant |-> "Tree", quadtree |-> q]
NoTree(tile_size, max) == [variant |-> "NoTree", tile_size |-> tile_size,
                           max |-> max]

\* Option<uint>: <<>> is None and <<m>> is Some(m)
Some(m) == <<m>>

\* no MaybeQuadtree is looked at: one with tile size 0 and no cache size
InitNoQuadtree ==
    /\ quadtree = NoTree(0, <<>>)
    /\ configured = 0
    /\ ret = <<>>

\* the LayerBufferSet is empty
InitNoBuffers == buffers = <<>>

Init ==
    /\ InitTree
    /\ InitNoBuffer
    /\ InitNoQuadtree
    /\ InitNoBuffers

AddChildStart ==
    \E c \in Containers, n \in Nodes :
        LET r == add_child_start(c, n, Fields, Range(borrows)) IN
        /\ Running
        /\ {c, n} \cap Released = {}
        /\ Call("add_child_start", c, n, r)
        /\ attached' = IF r.outcome = "ok"
                       THEN [attached EXCEPT ![c] = @ \cup {n}]
                       ELSE attached

AddChildEnd ==
    \E c \in Containers, n \in Nodes :
        LET r == add_child_end(c, n, Fields, Range(borrows)) IN
        /\ Running
        /\ {c, n} \cap Released = {}
        /\ Call("add_child_end", c, n, r)
        /\ attached' = IF r.outcome = "ok"
                       THEN [attached EXCEPT ![c] = @ \cup {n}]
                       ELSE attached

RemoveChild ==
    \E c \in Containers, n \in Nodes :
        LET r == remove_child(c, n, Fields, Range(borrows)) IN
        /\ Running
        /\ {c, n} \cap Released = {}
        /\ Call("remove_child", c, n, r)
        /\ attached' = IF r.outcome = "ok"
                       THEN [attached EXCEPT ![c] = @ \ {n}]
                       ELSE attached

RemoveAllChildren ==
    \E c \in Containers :
        LET r == remove_all_children(c, Fields) IN
        /\ Running
        /\ c \notin Released
        /\ Call("remove_all_children", c, None, r)
        /\ attached' = [attached EXCEPT ![c] = {}]

\* a caller enters n.with_common(f): the header is borrowed for as long as
\* the closure f runs
WithCommon ==
    \E n \in Nodes :
        /\ Running
        /\ IF BorrowMut(n, Range(borrows))
           THEN /\ Len(borrows) < MaxDepth
                /\ borrows' = Append(borrows, n)
                /\ last' = [op |-> "with_common", container |-> None,
                            child |-> n, outcome |-> "ok"]
           ELSE /\ borrows' = borrows
                /\ last' = [op |-> "with_common", container |-> None,
                            child |-> n, outcome |-> "borrow_mut"]
        /\ UNCHANGED <<links, attached, aux, iters>>

\* the innermost closure returns and its borrow is released
WithCommonReturn ==
    /\ Running
    /\ borrows # <<>>
    /\ borrows' = SubSeq(borrows, 1, Len(borrows) - 1)
    /\ last' = [op |-> "with_common_return", container |-> None,
                child |-> borrows[Len(borrows)], outcome |-> "ok"]
    /\ UNCHANGED <<links, attached, aux, iters>>

\* the tree operations, called from outside any with_common closure
Next ==
    \/ AddChildStart
    \/ AddChildEnd
    \/ RemoveChild
    \/ RemoveAllChildren

Spec == Init /\ [][Next]_vars

\* add_child_start, add_child_end and remove_child alone
NextTree ==
    \/ AddChildStart
    \/ AddChildEnd
    \/ RemoveChild

SpecTree == Init /\ [][NextTree]_vars

\* callers nest with_common closures and attach children inside them
NextBorrow ==
    \/ WithCommon
    \/ WithCommonReturn
    \/ AddChildStart
    \/ AddChildEnd

SpecBorrow == Init /\ [][NextBorrow]_vars

\* -------------------------------------------------------------- ownership
\* the caller drops its handle to node n
DropHandle ==
    \E n \in Nodes :
        /\ Running
        /\ handles[n]
        /\ handles' = [handles EXCEPT ![n] = FALSE]
        /\ last' = [op |-> "drop", container |-> None, child |-> n,
                    outcome |-> "ok"]
        /\ UNCHANGED <<links, borrows, attached, iters, buffer, out, quadtree,
                       configured, ret, buffers>>

\* the tree operations on nodes that are still alive, and handles dropped
NextOwn ==
    \/ AddChildStart
    \/ AddChildEnd
    \/ RemoveChild
    \/ DropHandle

SpecOwn == Init /\ [][NextOwn]_vars

\* ---------------------------------------------------------- ChildIterator
\* the caller calls c.children() and keeps the iterator as i
Children ==
    \E i \in Iterators, c \in Containers :
        /\ Running
        /\ iters' = [iters EXCEPT ![i] = children_iterator(c, Fields)]
        /\ last' = [op |-> "children", container |-> c, child |-> None,
                    outcome |-> "ok"]
        /\ UNCHANGED <<links, borrows, attached, aux>>

\* the caller calls next() on an iterator that has not returned None yet
IteratorNext ==
    \E i \in Iterators :
        LET r == next(iters[i], Fields, Range(borrows)) IN
        /\ Running
        /\ iters[i].held
        /\ ~iters[i].done
        /\ Len(iters[i].yielded) <= NumLayers
        /\ iters' = [(IF r.f = Fields THEN iters ELSE Mutated(iters))
                        EXCEPT ![i] = r.self]
        /\ parent' = r.f.parent
        /\ prev_sibling' = r.f.prev_sibling
        /\ next_sibling' = r.f.next_sibling
        /\ first_child' = r.f.first_child
        /\ last_child' = r.f.last_child
        /\ last' = [op |-> "next", container |-> iters[i].container,
                    child |-> iters[i].current, outcome |-> r.outcome]
        /\ UNCHANGED <<borrows, attached, aux>>

\* children are attached and all removed while iterators are held
NextIterate ==
    \/ Children
    \/ IteratorNext
    \/ AddChildStart
    \/ AddChildEnd
    \/ RemoveAllChildren

SpecIterate == Init /\ [][NextIterate]_vars

\* ------------------------------------------------- convert_rgb32_to_rgb24
Bytes == 0..MaxByte
Buffers == UNION {[1..k -> Bytes] : k \in 0..MaxLen}

\* the index the closure reads for output element j when its counter is i
ByteIndexUnswapped(j, i) == i + (j % 3)
ByteIndex(j, i) ==
    CASE j % 3 = 0 -> i + 2
      [] j % 3 = 1 -> i + 1
      [] OTHER -> i

\* Vec::from_fn(len, closure) from element j on, the closure's captured
\* counter being i; buf[k] of the code is b[k + 1] here, and an index past
\* the end of the slice fails the task
RECURSIVE from_fn(_, _, _, _)
from_fn(b, len, j, i) ==
    IF j >= len THEN [out |-> <<>>, outcome |-> "ok"]
    ELSE IF ByteIndex(j, i) >= Len(b)
      THEN [out |-> <<>>, outcome |-> "index_out_of_bounds"]
    ELSE LET rest == from_fn(b, len, j + 1, IF j % 3 = 2 THEN i + 4 ELSE i)
         IN  [out |-> <<b[ByteIndex(j, i) + 1]>> \o rest.out,
              outcome |-> rest.outcome]

convert_rgb32_to_rgb24(b) == from_fn(b, (Len(b) * 3) \div 4, 0, 0)

InitConvert ==
    /\ InitTree
    /\ InitNoQuadtree
    /\ InitNoBuffers
    /\ buffer \in Buffers
    /\ out = <<>>

Convert ==
    LET r == convert_rgb32_to_rgb24(buffer) IN
    /\ last.op = "new"
    /\ out' = IF r.outcome = "ok" THEN r.out ELSE <<>>
    /\ last' = [op |-> "convert_rgb32_to_rgb24", container |-> None,
                child |-> None, outcome |-> r.outcome]
    /\ UNCHANGED <<links, borrows, attached, iters, handles, buffer, quadtree, configured,
                   ret, buffers>>

NextConvert == Convert

SpecConvert == InitConvert /\ [][NextConvert]_vars

\* ----------------------------------------------------------- MaybeQuadtree
\* the tile cache built for a layer: it keeps the tile size it was built with
\* as its maximum tile size, and the cache size
Quadtree(tile_size, max_mem) ==
    [max_tile_size |-> tile_size, max_mem |-> max_mem]

\* tile_size as it would be if the pending state answered with the cache
\* size when there is one
tile_size_or_max(self) ==
    IF self.variant = "Tree" THEN self.quadtree.max_tile_size
    ELSE IF self.max # <<>> THEN self.max[1]
    ELSE self.tile_size

tile_size(self) ==
    IF self.variant = "Tree" THEN self.quadtree.max_tile_size
    ELSE self.tile_size

InitQuadtree ==
    /\ InitTree
    /\ InitNoBuffer
    /\ InitNoBuffers
    /\ \E t \in 0..MaxTile, m \in {<<>>} \cup {Some(k) : k \in 0..MaxMem} :
          /\ quadtree = NoTree(t, m)
          /\ configured = t
    /\ ret = <<>>

TileSize ==
    /\ ret' = <<tile_size(quadtree)>>
    /\ last' = [op |-> "tile_size", container |-> None, child |-> None,
                outcome |-> "ok"]
    /\ UNCHANGED <<links, borrows, attached, iters, handles, buffer, out, quadtree,
                   configured, buffers>>

\* the page size became known: the pending configuration is replaced, once,
\* by the cache built from it
BuildTree ==
    /\ quadtree.variant = "NoTree"
    /\ quadtree' = Tree(Quadtree(quadtree.tile_size, quadtree.max))
    /\ last' = [op |-> "build_tree", container |-> None, child |-> None,
                outcome |-> "ok"]
    /\ UNCHANGED <<links, borrows, attached, iters, handles, buffer, out, configured, ret,
                   buffers>>

NextQuadtree ==
    \/ TileSize
    \/ BuildTree

SpecQuadtree == InitQuadtree /\ [][NextQuadtree]_vars

\* --------------------------------------------------------- LayerBufferSet
\* a native surface: the handle it stands for and whether it is marked as
\* leaking intentionally
NativeSurface(id, will_leak) == [id |-> id, will_leak |-> will_leak]

\* NativeSurfaceMethods::mark_will_leak / mark_wont_leak
surface_mark_will_leak(surface) == [surface EXCEPT !.will_leak = TRUE]
surface_mark_wont_leak(surface) == [surface EXCEPT !.will_leak = FALSE]

\* the LayerBuffers with the native surface id; rect, screen_pos and
\* resolution are one fixed value each
LayerBuffer(id) ==
    [native_surface : {NativeSurface(id, w) : w \in BOOLEAN},
     rect : {"rect"},
     screen_pos : {"screen_pos"},
     resolution : {"resolution"},
     stride : 1..MaxStride,
     render_idx : 0..MaxRenderIdx]

\* the buffer vectors a LayerBufferSet can hold, buffer i owning surface i
LayerBufferSet ==
    UNION {{b \in [1..k -> UNION {LayerBuffer(i) : i \in 1..k}] :
               \A i \in 1..k : b[i].native_surface.id = i} :
           k \in 0..MaxBuffers}

\* mark_will_leak as it would be if the loop stopped one buffer early
mark_will_leak_but_last(bufs) ==
    [i \in 1..Len(bufs) |->
        IF i = Len(bufs) THEN bufs[i]
        ELSE [bufs[i] EXCEPT
                 !.native_surface = surface_mark_will_leak(@)]]

\* for buffer in self.buffers.mut_iter() { buffer.native_surface.mark_will_leak() }
mark_will_leak(bufs) ==
    [i \in 1..Len(bufs) |->
        [bufs[i] EXCEPT !.native_surface = surface_mark_will_leak(@)]]

\* Tile::mark_wont_leak for Box<LayerBuffer>
mark_wont_leak(self) ==
    [self EXCEPT !.native_surface = surface_mark_wont_leak(@)]

InitBuffers ==
    /\ InitTree
    /\ InitNoBuffer
    /\ InitNoQuadtree
    /\ buffers \in LayerBufferSet

MarkWillLeak ==
    /\ buffers' = mark_will_leak(buffers)
    /\ last' = [op |-> "mark_will_leak", container |-> None, child |-> None,
                outcome |-> "ok"]
    /\ UNCHANGED <<links, borrows, attached, iters, handles, buffer, out, quadtree,
                   configured, ret>>

MarkWontLeak ==
    \E i \in 1..Len(buffers) :
        /\ buffers' = [buffers EXCEPT ![i] = mark_wont_leak(@)]
        /\ last' = [op |-> "mark_wont_leak", container |-> None,
                    child |-> None, outcome |-> "ok"]
        /\ UNCHANGED <<links, borrows, attached, iters, handles, buffer, out, quadtree,
                       configured, ret>>

NextBuffers ==
    \/ MarkWillLeak
    \/ MarkWontLeak

SpecBuffers == InitBuffers /\ [][NextBuffers]_vars

TypeOK ==
    /\ parent \in [Nodes -> OptNodes]
    /\ prev_sibling \in [Nodes -> OptNodes]
    /\ next_sibling \in [Nodes -> OptNodes]
    /\ first_child \in [Containers -> OptNodes]
    /\ last_child \in [Containers -> OptNodes]
    /\ borrows \in Seq(Nodes)
    /\ attached \in [Containers -> SUBSET Nodes]

\* ----------------------------------------------------------------- claims
\* children() of c in the state a step leads to
ChildrenAfter(c) == ChildIterator(next_sibling', first_child'[c], NumLayers + 1)

NoDuplicates(s) == \A i, j \in 1..Len(s) : s[i] = s[j] => i = j

\* C1: after every call that returns, each container's first child has no
\* prev_sibling and its last child has no next_sibling, and no call ever
\* fails the inner assertion of add_child_start / add_child_end.
C1_ListEndsUnlinked ==
    /\ last.outcome # "assert_inner"
    /\ last.outcome = "ok" =>
        \A c \in Containers :
            /\ first_child[c] # None => prev_sibling[first_child[c]] = None
            /\ last_child[c] # None => next_sibling[last_child[c]] = None

\* C2: after every call that returns, following next_sibling from first_child
\* yields exactly the attached children of the container, each once.
C2_ChainIsAttachedSet ==
    last.outcome = "ok" =>
        \A c \in Containers :
            /\ Terminates(c)
            /\ NoDuplicates(children(c))
            /\ Range(children(c)) = attached[c]

\* the containers whose child list currently holds n
ListsHolding(n) == {c \in Containers : n \in Range(children(c))}

\* C3: parent is set iff the node is in exactly one container's child list; a
\* removed node has no parent; a listed node has no prev_sibling / next_sibling
\* exactly when it is the first / last child.
C3_ParentIffListed ==
    last.outcome = "ok" =>
        /\ \A n \in Nodes :
              parent[n] # None <=> Cardinality(ListsHolding(n)) = 1
        /\ last.op = "remove_child" => parent[last.child] = None
        /\ \A c \in Containers : \A n \in Range(children(c)) :
              /\ prev_sibling[n] = None <=> n = first_child[c]
              /\ next_sibling[n] = None <=> n = last_child[c]

\* C4: the next_sibling chain from first_child has no cycle, has as many nodes
\* as there are attached children, and ends at last_child.
C4_ChainReachesLast ==
    last.outcome = "ok" =>
        \A c \in Containers :
            /\ Terminates(c)
            /\ Len(children(c)) = Cardinality(attached[c])
            /\ children(c) # <<>> =>
                  children(c)[Len(children(c))] = last_child[c]

\* C5: remove_child fails when the child's parent is unset or another
\* container, and a remove_child of a node that is not attached to the
\* container changes neither first_child / last_child nor any sibling link.
C5_RemoveDetachedChangesNothing ==
    [][last'.op = "remove_child" =>
        /\ parent[last'.child] # last'.container => last'.outcome # "ok"
        /\ last'.child \notin attached[last'.container] =>
              UNCHANGED <<first_child, last_child, prev_sibling, next_sibling>>
      ]_vars

AddOps == {"add_child_start", "add_child_end"}

\* C6: add_child_start / add_child_end with a new_child that has parent,
\* prev_sibling or next_sibling set fails its entry assertion and leaves every
\* field of every node and container as it was.
C6_AddConnectedFailsUntouched ==
    [][(/\ last'.op \in AddOps
        /\ \/ parent[last'.child] # None
           \/ prev_sibling[last'.child] # None
           \/ next_sibling[last'.child] # None)
        => /\ last'.outcome = "assert_entry"
           /\ UNCHANGED <<links, attached>>
      ]_vars

\* an attached node was passed to add_child_start / add_child_end again and
\* the call failed its entry assertion
C6_Witness ==
    /\ last.op \in AddOps
    /\ last.outcome = "assert_entry"
    /\ \E c \in Containers : last.child \in Range(children(c))

\* C7: add_child_start(c, n) of a disconnected n that returns puts n in front
\* of the unchanged children() sequence S, sets n.parent to c and leaves
\* last_child alone unless S was empty, when last_child becomes n.
C7_AddStartPrepends ==
    [][(/\ last'.op = "add_child_start"
        /\ last'.outcome = "ok"
        /\ Terminates(last'.container))
        => LET c == last'.container
               n == last'.child
               S == children(c)
           IN  /\ ChildrenAfter(c) = <<n>> \o S
               /\ parent'[n] = c
               /\ last_child'[c] = IF S = <<>> THEN n ELSE last_child[c]
      ]_vars

\* C8: add_child_end(c, n) of a disconnected n that returns puts n behind the
\* unchanged children() sequence S, sets n.parent to c and leaves first_child
\* alone unless S was empty, when first_child becomes n.
C8_AddEndAppends ==
    [][(/\ last'.op = "add_child_end"
        /\ last'.outcome = "ok"
        /\ Terminates(last'.container))
        => LET c == last'.container
               n == last'.child
               S == children(c)
           IN  /\ ChildrenAfter(c) = S \o <<n>>
               /\ parent'[n] = c
               /\ first_child'[c] = IF S = <<>> THEN n ELSE first_child[c]
      ]_vars

\* the sequence s without the elements equal to x
RECURSIVE Without(_, _)
Without(s, x) ==
    IF s = <<>> THEN <<>>
    ELSE IF Head(s) = x THEN Without(Tail(s), x)
    ELSE <<Head(s)>> \o Without(Tail(s), x)

\* C9: remove_child(c, ch) of a ch that occurs in the children() sequence S
\* leaves S without ch, in the same order, and changes first_child /
\* last_child only when ch was the first / last element of S.
C9_RemoveDeletesOne ==
    [][(/\ last'.op = "remove_child"
        /\ last'.outcome = "ok"
        /\ Terminates(last'.container)
        /\ last'.child \in Range(children(last'.container)))
        => LET c == last'.container
               ch == last'.child
               S == children(c)
           IN  /\ ChildrenAfter(c) = Without(S, ch)
               /\ ch # S[1] => first_child'[c] = first_child[c]
               /\ ch # S[Len(S)] => last_child'[c] = last_child[c]
      ]_vars

\* a call that starts by borrowing the header of its node argument
BorrowingOps == AddOps \cup {"remove_child", "with_common"}

\* C10: no header is ever mutably borrowed twice at once; a with_common on a
\* node whose closure is still running is fatal and borrows nothing, so is a
\* tree operation on such a node, and a with_common on any other node is
\* granted and nests.
C10_WithCommonExclusive ==
    /\ [](NoDuplicates(borrows))
    /\ [][(last'.op \in BorrowingOps /\ last'.child \in Range(borrows))
            => /\ last'.outcome = "borrow_mut"
               /\ UNCHANGED <<links, borrows>>]_vars
    /\ [][(last'.op = "with_common" /\ last'.child \notin Range(borrows))
            => /\ last'.outcome = "ok"
               /\ borrows' = Append(borrows, last'.child)]_vars

\* inside two nested closures on different nodes, a third with_common on the
\* outer node was fatal
C10_Witness ==
    /\ Len(borrows) = 2
    /\ borrows[1] # borrows[2]
    /\ last.op = "with_common"
    /\ last.child = borrows[1]
    /\ last.outcome = "borrow_mut"

\* C14: a remove_child that returns leaves the removed child's own parent,
\* prev_sibling and next_sibling as they were; it writes only the container's
\* first_child / last_child, the prev_sibling of the child's next sibling and
\* the next_sibling of the child's previous sibling.
C14_RemoveKeepsChildHeader ==
    [][(last'.op = "remove_child" /\ last'.outcome = "ok")
        => LET c == last'.container
               ch == last'.child
           IN  /\ parent' = parent
               /\ prev_sibling'[ch] = prev_sibling[ch]
               /\ next_sibling'[ch] = next_sibling[ch]
               /\ \A n \in Nodes \ {next_sibling[ch]} :
                     prev_sibling'[n] = prev_sibling[n]
               /\ \A n \in Nodes \ {prev_sibling[ch]} :
                     next_sibling'[n] = next_sibling[n]
               /\ \A d \in Containers \ {c} :
                     /\ first_child'[d] = first_child[d]
                     /\ last_child'[d] = last_child[d]
      ]_vars

\* a middle child was removed: it is out of the list and still has its parent
\* and both sibling links
C14_Witness ==
    /\ last.op = "remove_child"
    /\ last.outcome = "ok"
    /\ last.child \notin Range(children(last.container))
    /\ parent[last.child] = last.container
    /\ prev_sibling[last.child] # None
    /\ next_sibling[last.child] # None

\* C15: remove_all_children sets first_child and last_child of the container
\* to None, so children() is empty, and changes nothing else: every node keeps
\* its parent, prev_sibling and next_sibling.
C15_RemoveAllOnlyClearsEnds ==
    [][last'.op = "remove_all_children"
        => LET c == last'.container
           IN  /\ first_child'[c] = None
               /\ last_child'[c] = None
               /\ ChildrenAfter(c) = <<>>
               /\ UNCHANGED <<parent, prev_sibling, next_sibling>>
               /\ \A d \in Containers \ {c} :
                     /\ first_child'[d] = first_child[d]
                     /\ last_child'[d] = last_child[d]
      ]_vars

\* a list of at least two children was cleared: the former children still
\* name the container as parent and still point at each other
C15_Witness ==
    /\ last.op = "remove_all_children"
    /\ first_child[last.container] = None
    /\ \E n, m \in Nodes :
          /\ n # m
          /\ parent[n] = last.container
          /\ parent[m] = last.container
          /\ next_sibling[n] = m
          /\ prev_sibling[m] = n

\* C17: after every call that returns, a container's first_child is None iff
\* its last_child is None.
C17_FirstNoneIffLastNone ==
    last.outcome = "ok" =>
        \A c \in Containers : first_child[c] = None <=> last_child[c] = None

\* C18: no tree operation ever asks for a header that is already mutably
\* borrowed: the nested with_common on the old first / last child or on a
\* neighbouring sibling is never on the node of the enclosing with_common.
C18_NoNestedBorrowOfSameNode ==
    last.outcome # "borrow_mut"

\* a tree operation ran its nested with_common on a neighbour of the node it
\* was called with
C18_Witness ==
    /\ last.outcome = "ok"
    /\ \/ /\ last.op = "add_child_start"
          /\ next_sibling[last.child] \notin {None, last.child}
       \/ /\ last.op = "add_child_end"
          /\ prev_sibling[last.child] \notin {None, last.child}
       \/ /\ last.op = "remove_child"
          /\ next_sibling[last.child] \notin {None, last.child}
          /\ prev_sibling[last.child] \notin {None, last.child}

\* C19: under the tree operations a parent field that is set never changes
\* again, and an add_child_start / add_child_end of a node whose parent is
\* set fails its entry assertion, whichever the container and whether or not
\* the node has been removed since.
C19_AttachedAtMostOnce ==
    [][/\ \A n \in Nodes : parent[n] # None => parent'[n] = parent[n]
       /\ (last'.op \in AddOps /\ parent[last'.child] # None)
             => last'.outcome = "assert_entry"
      ]_vars

\* a node that was removed from its container was passed to add_child_start /
\* add_child_end of the other container and the call failed
C19_Witness ==
    /\ last.op \in AddOps
    /\ last.outcome = "assert_entry"
    /\ parent[last.child] \notin {None, last.container}
    /\ \A c \in Containers : last.child \notin attached[c]

\* the result the claim describes for the input b: element j (from 0) is
\* input[4 * (j div 3) + 2 - (j mod 3)], for floor(3n / 4) elements
Rgb24Of(b) ==
    [j \in 1..((3 * Len(b)) \div 4) |->
        b[4 * ((j - 1) \div 3) + 2 - ((j - 1) % 3) + 1]]

Converted == last.op = "convert_rgb32_to_rgb24"

\* C20 as stated: for a buffer of any length the conversion completes and
\* returns floor(3n / 4) bytes, each pixel's first three bytes reversed.
C20_ConvertAnyLength ==
    Converted => last.outcome = "ok" /\ out = Rgb24Of(buffer)

\* C20 as amended: the same for every buffer whose length is not 2 modulo 4;
\* for a length that is 2 modulo 4 the conversion reads past the end of the
\* input and fails, returning nothing.
C20_ConvertLengthNot2Mod4 ==
    Converted =>
        IF Len(buffer) % 4 # 2
        THEN last.outcome = "ok" /\ out = Rgb24Of(buffer)
        ELSE last.outcome = "index_out_of_bounds"

\* a buffer of one whole pixel and a partial one was converted
C20_Witness ==
    /\ Converted
    /\ last.outcome = "ok"
    /\ Len(buffer) = 5
    /\ out = <<buffer[3], buffer[2], buffer[1]>>
    /\ buffer[1] # buffer[3]

\* C13: tile_size() returns the tile size the MaybeQuadtree was configured
\* with, in the pending state whatever the cache size and after the
\* transition to the built state.
C13_TileSizeIsConfigured ==
    last.op = "tile_size" => ret = <<configured>>

\* tile_size() was called on a built quadtree that had been configured with a
\* cache size different from its tile size
C13_Witness ==
    /\ last.op = "tile_size"
    /\ quadtree.variant = "Tree"
    /\ ret = <<configured>>
    /\ quadtree.quadtree.max_mem \notin {<<>>, <<configured>>}

\* C12: mark_will_leak marks the native surface of every buffer of the set
\* as leaking and does nothing else: the set has the same buffers in the same
\* order, every other field of every buffer is as before, and nothing else
\* changes.
C12_MarkWillLeakOnlyMarks ==
    [][last'.op = "mark_will_leak"
        => /\ Len(buffers') = Len(buffers)
           /\ \A i \in 1..Len(buffers) :
                 /\ buffers'[i].native_surface.will_leak
                 /\ buffers'[i].native_surface.id = buffers[i].native_surface.id
                 /\ buffers'[i].rect = buffers[i].rect
                 /\ buffers'[i].screen_pos = buffers[i].screen_pos
                 /\ buffers'[i].resolution = buffers[i].resolution
                 /\ buffers'[i].stride = buffers[i].stride
                 /\ buffers'[i].render_idx = buffers[i].render_idx
           /\ UNCHANGED <<links, borrows, attached, iters, handles, buffer, out, quadtree,
                          configured, ret>>
      ]_vars

\* a set of at least two different buffers was marked
C12_Witness ==
    /\ last.op = "mark_will_leak"
    /\ Len(buffers) >= 2
    /\ buffers[1].stride # buffers[2].stride
    /\ \A i \in 1..Len(buffers) : buffers[i].native_surface.will_leak

\* C11: children() and next() modify no node and no container; as long as
\* the tree is not mutated a held iterator yields the nodes of the chain from
\* the container's first_child, in order, however far another iterator has
\* got, so that two complete traversals of one container yield equal
\* sequences.
C11_TraversalsAgree ==
    /\ [][last'.op \in {"children", "next"} => UNCHANGED <<links, attached>>]_vars
    /\ [](\A i \in Iterators :
            iters[i].held =>
                /\ iters[i].yielded
                     \o ChildIterator(next_sibling, iters[i].current,
                                      NumLayers + 1)
                   = children(iters[i].container)
                /\ \A j \in Iterators :
                     (/\ iters[j].held
                      /\ iters[j].container = iters[i].container
                      /\ iters[i].done /\ iters[j].done)
                        => iters[j].yielded = iters[i].yielded)

\* two iterators over the same container of two children, made without a
\* mutation in between, have both run to the end
C11_Witness ==
    /\ iters["first"].held /\ iters["second"].held
    /\ iters["first"].container = iters["second"].container
    /\ iters["first"].done /\ iters["second"].done
    /\ Len(iters["first"].yielded) >= 2
    /\ iters["second"].yielded = iters["first"].yielded

\* the holders of node n that are parent fields, in the state a step leads to
ParentOwnersAfter(n) ==
    {o \in Owners(n, Fields', handles', iters', Nodes) : o[1] = "parent"}

\* the holders of node n other than parent fields of its children
OwnersButParents(n) ==
    {o \in Owners(n, Fields, handles, iters, Nodes \ Released) :
        o[1] # "parent"}

\* C16: a parent link does not own the container: attaching a child adds no
\* parent field to the holders of the container's Rc, and a container that
\* no handle and no tree link holds is released, children or not.
C16_ParentLinkDoesNotOwn ==
    /\ [][(last'.op \in AddOps /\ last'.outcome = "ok")
            => ParentOwnersAfter(last'.container)
                 \subseteq Owners(last'.container, Fields, handles, iters,
                                  Nodes)]_vars
    /\ [](\A c \in Containers :
            OwnersButParents(c) = {} => c \in Released)
====
